---------------------------- MODULE Spec2Model ----------------------------
(***************************************************************************)
(* A model of folder_compare::FolderCompare::new (src/src/lib.rs).         *)
(*                                                                         *)
(* The state is one call of FolderCompare::new(path1, path2, excluded):    *)
(* the two directory trees it reads, the exclusion patterns, the position  *)
(* of the WalkDir iterator, the accumulating final_object, the locals of   *)
(* the loop body, and the value the call returns.  Every filesystem access *)
(* the call performs is recorded in touched.                               *)
(*                                                                         *)
(* Path strings and patterns are sequences of one-character strings, file  *)
(* contents are sequences of bytes, and a 64-bit hash is a sequence of     *)
(* eight 8-bit limbs (least significant first), so that the arithmetic of  *)
(* FxHasher is computed modulo 2^64 exactly.                               *)
(***************************************************************************)
EXTENDS Integers, Sequences, FiniteSets, TLC

\* Longest file content, in bytes.
MaxLen == 1

\* Longest list of exclusion patterns.
MaxPatterns == 2

\* The byte values file contents are drawn from.
Bytes == {0, 1}

RECURSIVE SeqsUpTo(_, _)
\* All sequences over S of length at most n.
SeqsUpTo(S, n) ==
    IF n = 0 THEN {<<>>}
    ELSE LET shorter == SeqsUpTo(S, n - 1)
         IN  shorter \cup {Append(s, e) : s \in shorter, e \in S}

Contents == SeqsUpTo(Bytes, MaxLen)

-----------------------------------------------------------------------------
(* Paths.  path1 is "a" and path2 is "b"; the trees hold d/, d/x and x.    *)

path1 == <<"a">>
path2 == <<"b">>

Join_NoTrailing(base, rel) ==
    IF rel = <<>> THEN base ELSE base \o <<"/">> \o rel

\* Path::join: push a separator unless the base ends with one, then the
\* relative path (an empty relative path leaves the trailing separator).
Join(base, rel) ==
    IF base # <<>> /\ base[Len(base)] = "/" THEN base \o rel
    ELSE base \o <<"/">> \o rel

RelD  == <<"d">>
RelDX == <<"d", "/", "x">>
RelX  == <<"x">>

PathsA == {path1, Join(path1, RelD), Join(path1, RelDX), Join(path1, RelX)}
PathsB == {path2, Join(path2, RelD), Join(path2, RelDX), Join(path2, RelX)}

\* What read_dir lists under a directory of tree A that holds p's children.
ChildrenOf(p) ==
    IF p = path1 THEN <<Join(path1, RelD), Join(path1, RelX)>>
    ELSE IF p = Join(path1, RelD) THEN <<Join(path1, RelDX)>>
    ELSE <<>>

\* Path::strip_prefix: the path relative to base, or the error marker.
StripPrefixError == <<"StripPrefixError">>
StripPrefix(path, base) ==
    IF path = base THEN <<>>
    ELSE IF /\ Len(path) > Len(base) + 1
            /\ SubSeq(path, 1, Len(base)) = base
            /\ path[Len(base) + 1] = "/"
         THEN SubSeq(path, Len(base) + 2, Len(path))
         ELSE StripPrefixError

-----------------------------------------------------------------------------
(* Filesystem nodes.  A tree maps each of its paths to the kind of node    *)
(* found there:                                                            *)
(*   "absent"      nothing                                                 *)
(*   "vanished"    listed by read_dir, its lstat then fails                *)
(*   "symlink"     a symbolic link                                         *)
(*   "file"        a regular file                                          *)
(*   "dir"         a directory                                             *)
(*   "dir_locked"  a directory that cannot be listed                       *)
(* What a file holds, and whether it can be opened, is learnt when the     *)
(* call opens and reads it.                                                *)

LeafKindsA == {"absent", "vanished", "symlink", "file"}
DirKinds == {"dir", "dir_locked"}
LeafKindsB == {"absent", "dir", "file"}

IsDir(k) == k \in DirKinds

-----------------------------------------------------------------------------
(* RegexSet over the exclusion patterns.  The dialect modelled: a literal  *)
(* character matches itself, "." matches any character, "(" and ")" group  *)
(* and must balance, a closing "$" matches the end of the text, and a      *)
(* pattern is not anchored at the start.                                   *)

\* The patterns the caller may pass: "d." (matches a/d/x only), "a$"
\* (matches path1 only) and the unbalanced "(".
Patterns == {<<"d", ".">>, <<"a", "$">>, <<"(">>}

ExcludedLists == SeqsUpTo(Patterns, MaxPatterns)

RECURSIVE ParenDepth(_, _, _)
\* The nesting depth after pattern p from position i on, -1 once a ")" closes
\* nothing.
ParenDepth(p, i, depth) ==
    IF depth < 0 THEN -1
    ELSE IF i > Len(p) THEN depth
    ELSE IF p[i] = "(" THEN ParenDepth(p, i + 1, depth + 1)
    ELSE IF p[i] = ")" THEN ParenDepth(p, i + 1, depth - 1)
    ELSE ParenDepth(p, i + 1, depth)

IsValidRegex_AcceptAll(p) == TRUE

\* Whether the pattern compiles.
IsValidRegex(p) == ParenDepth(p, 1, 0) = 0

IsParen(ch) == ch \in {"(", ")"}

\* Whether a compiled pattern matches somewhere in text.
IsMatch(p, text) ==
    LET q == SelectSeq(p, LAMBDA ch : ~IsParen(ch))
        anchored == q # <<>> /\ q[Len(q)] = "$"
        body == IF anchored THEN SubSeq(q, 1, Len(q) - 1) ELSE q
    IN  \E i \in 0..(Len(text) - Len(body)) :
            /\ anchored => i = Len(text) - Len(body)
            /\ \A j \in 1..Len(body) : body[j] = "." \/ body[j] = text[i + j]

\* RegexSet::new(excluded): Ok or Err(regex::Error).
RegexSetNew(pats) ==
    IF \A k \in 1..Len(pats) : IsValidRegex(pats[k]) THEN "Ok" ELSE "Err"

MatchedAny_AllPatterns(set, text) ==
    set # <<>> /\ \A k \in 1..Len(set) : IsMatch(set[k], text)

\* set.matches(text).matched_any()
MatchedAny(set, text) == \E k \in 1..Len(set) : IsMatch(set[k], text)

-----------------------------------------------------------------------------
(* FxHasher on a 64-bit target.  A hash is eight limbs of eight bits,      *)
(* least significant first; a word read from a little-endian buffer has    *)
(* the buffer's bytes as its limbs.                                        *)

\* SEED64 = 0x517cc1b727220a95
Seed64 == <<149, 10, 34, 39, 183, 193, 124, 81>>

ZeroHash == <<0, 0, 0, 0, 0, 0, 0, 0>>

RECURSIVE Xor8(_, _, _)
\* The bitwise exclusive or of the low n bits of a and b.
Xor8(a, b, n) ==
    IF n = 0 THEN 0
    ELSE ((a + b) % 2) + 2 * Xor8(a \div 2, b \div 2, n - 1)

\* u64::rotate_left(5)
RotateLeft5(h) ==
    LET Limb(k) == ((h[k] * 32) % 256) + (h[IF k = 1 THEN 8 ELSE k - 1] \div 8)
    IN  <<Limb(1), Limb(2), Limb(3), Limb(4), Limb(5), Limb(6), Limb(7), Limb(8)>>

BitXor(h, w) ==
    LET Limb(k) == Xor8(h[k], w[k], 8)
    IN  <<Limb(1), Limb(2), Limb(3), Limb(4), Limb(5), Limb(6), Limb(7), Limb(8)>>

RECURSIVE MulFrom(_, _, _, _)
\* The limbs k..8 of a * b modulo 2^64, given the carry into limb k.
MulFrom(a, b, k, carry) ==
    IF k > 8 THEN <<>>
    ELSE LET RECURSIVE Column(_)
             Column(i) == IF i > k THEN 0 ELSE a[i] * b[k + 1 - i] + Column(i + 1)
             total == Column(1) + carry
         IN  <<total % 256>> \o MulFrom(a, b, k + 1, total \div 256)

\* u64::wrapping_mul
WrappingMul(a, b) == MulFrom(a, b, 1, 0)

\* hash_word: self = (self.rotate_left(5) ^ word).wrapping_mul(SEED64)
HashWord(h, w) == WrappingMul(BitXor(RotateLeft5(h), w), Seed64)

\* The little-endian word made of at most eight bytes.
Word(bytes) ==
    LET Limb(k) == IF k <= Len(bytes) THEN bytes[k] ELSE 0
    IN  <<Limb(1), Limb(2), Limb(3), Limb(4), Limb(5), Limb(6), Limb(7), Limb(8)>>

RECURSIVE WriteBytes(_, _)
WriteBytes(h, bytes) ==
    IF bytes = <<>> THEN h
    ELSE WriteBytes(HashWord(h, Word(<<Head(bytes)>>)), Tail(bytes))

RECURSIVE Write64(_, _)
\* write64: eight bytes at a time, then four, then one by one.
Write64(h, bytes) ==
    IF Len(bytes) >= 8
    THEN Write64(HashWord(h, Word(SubSeq(bytes, 1, 8))), SubSeq(bytes, 9, Len(bytes)))
    ELSE IF Len(bytes) >= 4
    THEN WriteBytes(HashWord(h, Word(SubSeq(bytes, 1, 4))), SubSeq(bytes, 5, Len(bytes)))
    ELSE WriteBytes(h, bytes)

\* FxHasher::default(), hasher.write(buffer), hasher.finish()
Fingerprint(buffer) == Write64(ZeroHash, buffer)

-----------------------------------------------------------------------------
(* The trees.  A path can only exist inside a directory.                   *)

Tree(root, kr, kd, kdx, kx) ==
    [p \in {root, Join(root, RelD), Join(root, RelDX), Join(root, RelX)} |->
        IF p = root THEN kr
        ELSE IF p = Join(root, RelD) THEN kd
        ELSE IF p = Join(root, RelDX) THEN kdx
        ELSE kx]

WellFormed(root, t) ==
    /\ ~IsDir(t[root]) =>
          t[Join(root, RelD)] = "absent" /\ t[Join(root, RelX)] = "absent"
    /\ ~IsDir(t[Join(root, RelD)]) => t[Join(root, RelDX)] = "absent"

TreesA ==
    {t \in {Tree(path1, r, d, dx, x) :
                r \in {"absent", "file"} \cup DirKinds,
                d \in {"absent"} \cup DirKinds,
                dx \in LeafKindsA, x \in LeafKindsA} : WellFormed(path1, t)}

TreesB ==
    {t \in {Tree(path2, r, d, dx, x) :
                r \in {"absent", "file", "dir"},
                d \in {"absent", "dir"},
                dx \in LeafKindsB, x \in LeafKindsB} : WellFormed(path2, t)}

-----------------------------------------------------------------------------
(* WalkDir::new(path1).into_iter(), links not followed: the sequence of    *)
(* items the iterator yields.  An item is Ok(DirEntry) or Err.             *)

OkItem(p, ty) ==
    [ok |-> TRUE, path |-> p, file_type |-> ty, path_is_symlink |-> ty = "symlink"]
ErrItem(p) ==
    [ok |-> FALSE, path |-> p, file_type |-> "none", path_is_symlink |-> FALSE]

RECURSIVE Walk(_, _, _)
\* The items yielded for path p at the given depth: the root's metadata
\* failure, an entry whose lstat fails and a directory that cannot be listed
\* are each one Err item; a directory is yielded before its contents.
Walk(fs, p, depth) ==
    LET k == fs[p]
        RECURSIVE WalkAll(_)
        WalkAll(ps) ==
            IF ps = <<>> THEN <<>>
            ELSE Walk(fs, Head(ps), depth + 1) \o WalkAll(Tail(ps))
    IN  CASE k = "absent"     -> IF depth = 0 THEN <<ErrItem(p)>> ELSE <<>>
          [] k = "vanished"   -> <<ErrItem(p)>>
          [] k = "dir"        -> <<OkItem(p, "dir")>> \o WalkAll(ChildrenOf(p))
          [] k = "dir_locked" -> <<OkItem(p, "dir"), ErrItem(p)>>
          [] OTHER            -> <<OkItem(p, k)>>

IsFile_Exists(fs, p) == p \in DOMAIN fs /\ fs[p] # "absent"

\* Path::is_file: the path resolves to a regular file.  A path that ends
\* with a separator names no path of the tree: it can only be a directory.
IsFile(fs, p) == p \in DOMAIN fs /\ fs[p] = "file"

-----------------------------------------------------------------------------
VARIABLES
    fsA,            \* the tree under path1
    fsB,            \* the tree under path2
    excluded,       \* the patterns passed to new
    pc,             \* "new" | "loop" | "done"
    walker,         \* the number of items the WalkDir iterator has yielded
    final_object,   \* the FolderCompare being filled
    buffer,         \* the bytes read from the entry in the last iteration
    buffer2,        \* the bytes read from its mirror in the last iteration
    step,           \* how the last iteration ended
    observed,       \* for each entry compared: whether the bytes read from
                    \* it and from its mirror were the same
    result,         \* what new returned: Ok(final_object) or Err(error)
    touched         \* the filesystem accesses made so far

vars == <<fsA, fsB, excluded, pc, walker, final_object, buffer, buffer2, step,
          observed, result, touched>>

\* The items the walker yields in this call.
Items == Walk(fsA, path1, 0)

\* The item walker.next() returns now.
NextItem == Items[walker + 1]

Access(op, p) == [op |-> op, path |-> p]

Ok(obj) == [tag |-> "Ok", value |-> obj]
Err(e) == [tag |-> "Err", error |-> e]

Init ==
    /\ fsA \in TreesA
    /\ fsB \in TreesB
    /\ excluded \in ExcludedLists
    /\ pc = "new"
    /\ walker = 0
    /\ final_object = [changed_files |-> <<>>, new_files |-> <<>>, unchanged_files |-> <<>>]
    /\ buffer = <<>>
    /\ buffer2 = <<>>
    /\ step = "none"
    /\ observed = {}
    /\ result = [tag |-> "None"]
    /\ touched = {}

\* RegexSet::new(excluded)? fails: new returns the error.
RegexSetErr ==
    /\ pc = "new"
    /\ RegexSetNew(excluded) = "Err"
    /\ result' = Err("Regex")
    /\ pc' = "done"
    /\ UNCHANGED <<fsA, fsB, excluded, walker, final_object, buffer, buffer2,
                   step, observed, touched>>

\* The walker and the set are built; the loop starts.
RegexSetOk ==
    /\ pc = "new"
    /\ RegexSetNew(excluded) = "Ok"
    /\ pc' = "loop"
    /\ UNCHANGED <<fsA, fsB, excluded, walker, final_object, buffer, buffer2,
                   step, observed, result, touched>>

\* walker.next() is None: break, Ok(final_object).
WalkerNone ==
    /\ pc = "loop"
    /\ walker = Len(Items)
    /\ result' = Ok(final_object)
    /\ pc' = "done"
    /\ UNCHANGED <<fsA, fsB, excluded, walker, final_object, buffer, buffer2,
                   step, observed, touched>>

WalkerErr_Abort ==
    /\ pc = "loop"
    /\ walker < Len(Items)
    /\ ~NextItem.ok
    /\ walker' = walker + 1
    /\ touched' = touched \cup {Access("walk", NextItem.path)}
    /\ buffer' = <<>>
    /\ buffer2' = <<>>
    /\ step' = "walk_err"
    /\ result' = Err("Io")
    /\ pc' = "done"
    /\ UNCHANGED <<fsA, fsB, excluded, final_object, observed>>

\* walker.next() is Some(Err(_)): continue.
WalkerErr ==
    /\ pc = "loop"
    /\ walker < Len(Items)
    /\ ~NextItem.ok
    /\ walker' = walker + 1
    /\ touched' = touched \cup {Access("walk", NextItem.path)}
    /\ buffer' = <<>>
    /\ buffer2' = <<>>
    /\ step' = "walk_err"
    /\ UNCHANGED <<fsA, fsB, excluded, pc, final_object, observed, result>>

Skipped_DirsOnly(set, entry) ==
    \/ entry.file_type = "dir"
    \/ MatchedAny(set, entry.path)

\* The three filters of the loop body: not a file, a symlink, excluded.
Skipped(set, entry) ==
    \/ entry.file_type # "file"
    \/ entry.path_is_symlink
    \/ MatchedAny(set, entry.path)

\* The entry is filtered out: continue.
SkipEntry ==
    /\ pc = "loop"
    /\ walker < Len(Items)
    /\ NextItem.ok
    /\ Skipped(excluded, NextItem)
    /\ walker' = walker + 1
    /\ touched' = touched \cup {Access("walk", NextItem.path)}
    /\ buffer' = <<>>
    /\ buffer2' = <<>>
    /\ step' = "skip"
    /\ UNCHANGED <<fsA, fsB, excluded, pc, final_object, observed, result>>

\* file_in_second_path = path2.join(entry.path().strip_prefix(path1)?)
Mirror(entry) == Join(path2, StripPrefix(entry.path, path1))

\* No file at the mirror path: the entry is new.
PushNew ==
    /\ pc = "loop"
    /\ walker < Len(Items)
    /\ NextItem.ok
    /\ ~Skipped(excluded, NextItem)
    /\ StripPrefix(NextItem.path, path1) # StripPrefixError
    /\ ~IsFile(fsB, Mirror(NextItem))
    /\ walker' = walker + 1
    /\ touched' = touched \cup {Access("walk", NextItem.path),
                                Access("stat", Mirror(NextItem))}
    /\ final_object' = [final_object EXCEPT
                            !.new_files = Append(@, NextItem.path)]
    /\ buffer' = <<>>
    /\ buffer2' = <<>>
    /\ step' = "new"
    /\ UNCHANGED <<fsA, fsB, excluded, pc, observed, result>>

ReturnErr_Skip ==
    /\ pc = "loop"
    /\ walker < Len(Items)
    /\ NextItem.ok
    /\ ~Skipped(excluded, NextItem)
    /\ StripPrefix(NextItem.path, path1) # StripPrefixError
    /\ IsFile(fsB, Mirror(NextItem))
    /\ walker' = walker + 1
    /\ touched' = touched \cup {Access("walk", NextItem.path),
                                Access("stat", Mirror(NextItem)),
                                Access("open", NextItem.path)}
    /\ buffer' = <<>>
    /\ buffer2' = <<>>
    /\ step' = "io_err_first"
    /\ UNCHANGED <<fsA, fsB, excluded, pc, final_object, observed, result>>

\* A `?` of the loop body fails: strip_prefix, or opening and reading the
\* entry, or (the entry read) opening and reading its mirror.  new returns
\* the error.
ReturnErr ==
    /\ pc = "loop"
    /\ walker < Len(Items)
    /\ NextItem.ok
    /\ ~Skipped(excluded, NextItem)
    /\ IF StripPrefix(NextItem.path, path1) = StripPrefixError
       THEN /\ result' = Err("StripPrefix")
            /\ touched' = touched \cup {Access("walk", NextItem.path)}
            /\ buffer' = <<>>
            /\ buffer2' = <<>>
            /\ step' = "strip_prefix_err"
       ELSE /\ IsFile(fsB, Mirror(NextItem))
            /\ result' = Err("Io")
            /\ buffer2' = <<>>
            /\ \/ /\ buffer' = <<>>
                  /\ step' = "io_err_first"
                  /\ touched' = touched \cup
                        {Access("walk", NextItem.path),
                         Access("stat", Mirror(NextItem)),
                         Access("open", NextItem.path)}
               \/ /\ buffer' \in Contents
                  /\ step' = "io_err_second"
                  /\ touched' = touched \cup
                        {Access("walk", NextItem.path),
                         Access("stat", Mirror(NextItem)),
                         Access("open", NextItem.path),
                         Access("open", Mirror(NextItem))}
    /\ walker' = walker + 1
    /\ pc' = "done"
    /\ UNCHANGED <<fsA, fsB, excluded, final_object, observed>>

SameFingerprint_Swapped(b1, b2) == Fingerprint(b1) # Fingerprint(b2)

\* hasher.finish() == hasher2.finish()
SameFingerprint(b1, b2) == Fingerprint(b1) = Fingerprint(b2)

ListFor_DropUnchanged(b1, b2) ==
    IF SameFingerprint(b1, b2) THEN "none" ELSE "changed_files"

\* The list an entry with these two contents is pushed to.
ListFor(b1, b2) ==
    IF SameFingerprint(b1, b2) THEN "unchanged_files" ELSE "changed_files"

PushTo(obj, list, p) ==
    IF list \in DOMAIN obj THEN [obj EXCEPT ![list] = Append(@, p)] ELSE obj

\* Both files are read and hashed; the entry is unchanged or changed.
Compare ==
    /\ pc = "loop"
    /\ walker < Len(Items)
    /\ NextItem.ok
    /\ ~Skipped(excluded, NextItem)
    /\ StripPrefix(NextItem.path, path1) # StripPrefixError
    /\ IsFile(fsB, Mirror(NextItem))
    /\ buffer' \in Contents
    /\ buffer2' \in Contents
    /\ walker' = walker + 1
    /\ touched' = touched \cup {Access("walk", NextItem.path),
                                Access("stat", Mirror(NextItem)),
                                Access("open", NextItem.path),
                                Access("open", Mirror(NextItem))}
    /\ final_object' = PushTo(final_object, ListFor(buffer', buffer2'), NextItem.path)
    /\ step' = "compare"
    /\ observed' = observed \cup
          {[path |-> NextItem.path, identical |-> buffer' = buffer2']}
    /\ UNCHANGED <<fsA, fsB, excluded, pc, result>>

Next ==
    \/ RegexSetErr
    \/ RegexSetOk
    \/ WalkerNone
    \/ WalkerErr
    \/ SkipEntry
    \/ PushNew
    \/ ReturnErr
    \/ Compare

Spec == Init /\ [][Next]_vars

-----------------------------------------------------------------------------
(* Vocabulary of the properties.                                           *)

PathD  == Join(path1, RelD)
PathDX == Join(path1, RelDX)
PathX  == Join(path1, RelX)

\* The paths in one list of a FolderCompare.
PathsOf(obj, list) == {obj[list][i] : i \in 1..Len(obj[list])}

AllListed(obj) ==
    PathsOf(obj, "new_files") \cup PathsOf(obj, "changed_files")
        \cup PathsOf(obj, "unchanged_files")

\* No path twice in one list, nor in two lists.
NoDuplicates(obj) ==
    /\ \A list \in DOMAIN obj :
          \A i, j \in 1..Len(obj[list]) : obj[list][i] = obj[list][j] => i = j
    /\ PathsOf(obj, "new_files") \cap PathsOf(obj, "changed_files") = {}
    /\ PathsOf(obj, "new_files") \cap PathsOf(obj, "unchanged_files") = {}
    /\ PathsOf(obj, "changed_files") \cap PathsOf(obj, "unchanged_files") = {}

EmptyObject == [changed_files |-> <<>>, new_files |-> <<>>, unchanged_files |-> <<>>]

\* The path string matches at least one of the patterns passed.
Matches(p) == \E k \in 1..Len(excluded) : IsMatch(excluded[k], p)

\* One of the patterns passed is the unbalanced parenthesis.
HasInvalidPattern == \E k \in 1..Len(excluded) : excluded[k] = <<"(">>

\* The regular files of tree A.
FilesInA == {p \in PathsA : fsA[p] = "file"}

\* Every directory above p, path1 included, can be listed.
Reached(p) ==
    \/ p = path1
    \/ p \in {PathD, PathX} /\ fsA[path1] = "dir"
    \/ p = PathDX /\ fsA[path1] = "dir" /\ fsA[PathD] = "dir"

\* The mirror path of p in tree B, and whether a regular file is there.
MirrorOf(p) == Mirror([path |-> p])
MirrorIsFile(p) == MirrorOf(p) \in DOMAIN fsB /\ fsB[MirrorOf(p)] = "file"

Done == pc = "done"
ReturnedOk == pc = "done" /\ result.tag = "Ok"
ReturnedErr == pc = "done" /\ result.tag = "Err"

\* The item consumed by the last iteration.
LastItem == Items[walker]

\* The entries that passed the three filters, among the items consumed.
EligibleSeen ==
    {i \in 1..walker : /\ Items[i].ok
                       /\ Items[i].file_type = "file"
                       /\ ~Matches(Items[i].path)}

-----------------------------------------------------------------------------
(* C1, as stated: with no exclusion patterns, when new returns Ok the      *)
(* three lists hold exactly the regular files of A, none twice.            *)
C1_Claim ==
    (ReturnedOk /\ excluded = <<>>) =>
        /\ AllListed(result.value) = FilesInA
        /\ NoDuplicates(result.value)

(* C1, amended: with no exclusion patterns, when new returns Ok the three  *)
(* lists hold exactly the regular files of A that the walk reaches (those  *)
(* not below a directory that could not be listed), none twice.            *)
C1_Thm ==
    (ReturnedOk /\ excluded = <<>>) =>
        /\ AllListed(result.value) = {p \in FilesInA : Reached(p)}
        /\ NoDuplicates(result.value)

C1_Witness ==
    /\ ReturnedOk /\ excluded = <<>>
    /\ result.value.new_files = <<PathDX>>
    /\ result.value.unchanged_files = <<PathX>>

(* C2, as stated: an entry whose bytes differ from its mirror's bytes is   *)
(* pushed to changed_files and never to unchanged_files.                   *)
C2_Claim ==
    \A o \in observed :
        ~o.identical =>
            /\ o.path \in PathsOf(final_object, "changed_files")
            /\ o.path \notin PathsOf(final_object, "unchanged_files")

(* C3: an entry whose bytes equal its mirror's bytes is pushed to          *)
(* unchanged_files and never to changed_files or new_files.                *)
C3_Thm ==
    \A o \in observed :
        o.identical =>
            /\ o.path \in PathsOf(final_object, "unchanged_files")
            /\ o.path \notin PathsOf(final_object, "changed_files")
            /\ o.path \notin PathsOf(final_object, "new_files")

C3_Witness ==
    /\ step = "compare"
    /\ buffer = buffer2
    /\ buffer # <<>>
    /\ [path |-> LastItem.path, identical |-> TRUE] \in observed

(* C4: a file under A whose path string matches any one of the patterns    *)
(* is in none of the three lists, whatever is at its mirror path.          *)
C4_Thm ==
    \A p \in PathsA : Matches(p) => p \notin AllListed(final_object)

C4_Witness ==
    /\ ReturnedOk
    /\ Len(excluded) = 2
    /\ fsA[PathDX] = "file" /\ Reached(PathDX) /\ MirrorIsFile(PathDX)
    /\ ~IsMatch(excluded[1], PathDX) /\ IsMatch(excluded[2], PathDX)
    /\ PathX \in AllListed(result.value)

(* C5: with an invalid pattern new fails with the regex error before any   *)
(* filesystem access: nothing enumerated, stat'ed or opened.               *)
C5_Thm ==
    HasInvalidPattern =>
        /\ touched = {}
        /\ walker = 0
        /\ pc # "loop"
        /\ Done => result = Err("Regex")

C5_Witness ==
    /\ HasInvalidPattern
    /\ Done
    /\ result = Err("Regex")
    /\ FilesInA # {}

(* C6: an eligible entry with no regular file at its mirror path is        *)
(* pushed to new_files, neither it nor the mirror path is opened, and no   *)
(* error is returned at it.                                                *)
C6_Thm ==
    \A i \in EligibleSeen :
        ~MirrorIsFile(Items[i].path) =>
            /\ Items[i].path \in PathsOf(final_object, "new_files")
            /\ Items[i].path \notin PathsOf(final_object, "changed_files")
            /\ Items[i].path \notin PathsOf(final_object, "unchanged_files")
            /\ Access("open", Items[i].path) \notin touched
            /\ Access("open", MirrorOf(Items[i].path)) \notin touched
            /\ i = walker => result.tag # "Err"

C6_Witness ==
    /\ ReturnedOk
    /\ fsB[path2] = "absent"
    /\ result.value.new_files = <<PathDX, PathX>>

(* C7: a failed open or read of the entry or of its mirror ends the call   *)
(* with the I/O error alone: no list is returned, and no later entry is    *)
(* enumerated; a call that returns Ok returns the lists of a completed     *)
(* walk.                                                                   *)
C7_Thm ==
    /\ step \in {"io_err_first", "io_err_second"} =>
          /\ Done
          /\ result = Err("Io")
          /\ DOMAIN result = {"tag", "error"}
          /\ \A i \in (walker + 1)..Len(Items) :
                \A a \in touched : a.path # Items[i].path
    /\ ReturnedOk =>
          /\ DOMAIN result = {"tag", "value"}
          /\ result.value = final_object
          /\ walker = Len(Items)

C7_Witness ==
    /\ step = "io_err_second"
    /\ ReturnedErr
    /\ AllListed(final_object) # {}

(* C8, as stated: with valid patterns, a root A that does not exist or is  *)
(* a regular file gives Ok with three empty lists.                         *)
C8_Claim ==
    (Done /\ ~HasInvalidPattern /\ fsA[path1] \in {"absent", "file"}) =>
        result = Ok(EmptyObject)

(* C8, amended: with valid patterns, a root A that does not exist gives    *)
(* Ok with three empty lists; a root A that is a regular file gives Ok     *)
(* with changed_files and unchanged_files empty and with new_files         *)
(* holding root A itself, unless its path matches a pattern.               *)
C8_Thm ==
    (Done /\ ~HasInvalidPattern) =>
        /\ fsA[path1] = "absent" => result = Ok(EmptyObject)
        /\ fsA[path1] = "file" =>
              result = Ok([EmptyObject EXCEPT
                              !.new_files = IF Matches(path1) THEN <<>>
                                            ELSE <<path1>>])

C8_Witness ==
    /\ Done
    /\ fsA[path1] = "file"
    /\ fsB[path2] = "file"
    /\ result = Ok([EmptyObject EXCEPT !.new_files = <<path1>>])

(* C9: a symbolic link under A is in none of the three lists, is not       *)
(* opened, and its mirror path is not examined.                            *)
C9_Thm ==
    \A p \in PathsA :
        fsA[p] = "symlink" =>
            /\ p \notin AllListed(final_object)
            /\ Access("open", p) \notin touched
            /\ Access("stat", MirrorOf(p)) \notin touched
            /\ Access("open", MirrorOf(p)) \notin touched

C9_Witness ==
    /\ ReturnedOk
    /\ fsA[PathDX] = "symlink" /\ Reached(PathDX) /\ MirrorIsFile(PathDX)
    /\ ~Matches(PathDX)
    /\ PathX \in PathsOf(result.value, "changed_files")

(* C10: an Err item of the walk never ends the call with an error, its     *)
(* path is in no list, and the entries the walk yields are classified      *)
(* all the same: when new returns Ok, every reached, unexcluded file is    *)
(* new if its mirror is no file, and otherwise changed or unchanged as     *)
(* its bytes were compared.                                                *)
C10_Thm ==
    /\ step = "walk_err" => (pc = "loop" \/ ReturnedOk)
    /\ \A i \in 1..walker :
          ~Items[i].ok => Items[i].path \notin AllListed(final_object)
    /\ ReturnedOk =>
          \A p \in FilesInA :
              (Reached(p) /\ ~Matches(p)) =>
                  IF MirrorIsFile(p)
                  THEN /\ p \in PathsOf(result.value, "changed_files")
                              \cup PathsOf(result.value, "unchanged_files")
                       /\ \E o \in observed : o.path = p
                  ELSE p \in PathsOf(result.value, "new_files")

C10_Witness ==
    /\ ReturnedOk
    /\ fsA[PathDX] = "vanished" /\ Reached(PathDX)
    /\ PathX \in PathsOf(result.value, "changed_files")

=============================================================================
